---- MODULE Spec2Model ----
(***************************************************************************)
(* A model of whatsabi's autoload (src/src.ts/auto.ts): the orchestrator   *)
(* that resolves an address into an ABI through name resolution, a         *)
(* registry lookup, bytecode extraction, the reliability filter and        *)
(* concurrent per-entry signature enrichment.                              *)
(*                                                                         *)
(* JavaScript values are modelled as strings ("undefined", "false",        *)
(* "true", "1", ...) or tokens naming an object ("provider", "loader",     *)
(* "lookup", "hook").  An ABI entry is a record whose DOMAIN is the set of *)
(* the attributes the object carries; an ABI is a sequence of entries.     *)
(* Every await of the code is a position of pc; the capability the code    *)
(* awaits settles in a separate action with a nondeterministic outcome.    *)
(***************************************************************************)
EXTENDS Integers, Sequences, FiniteSets, TLC

VARIABLES
    config,     \* the config argument of autoload
    input,      \* the address argument of autoload, as passed by the caller
    address,    \* the local variable address (reassigned by name resolution)
    pc,         \* position of autoload: start, an awaited call, returned, raised
    events,     \* log of hook invocations and capability calls, <<op, arg>>
    registry,   \* how abiLoader.loadABI settled: [status, abi]
    hookRet,    \* the value onError returned, "none" while not invoked
    raw,        \* the output of abiFromBytecode(code)
    preEnrich,  \* the value of abi when the enrichment stage starts (line 70)
    abi,        \* the local variable abi; its entries are mutated in place
    lookups,    \* per entry of abi: the signature lookup issued for it
    result,     \* the ABI autoload resolved with (meaningful when returned)
    resolved,   \* what provider.resolveName resolved with, "none" before
    filterRun   \* a stand-alone run of stripUnreliableABI: [stage, candidate,
                \* once, twice]

vars == <<config, input, address, pc, events, registry, hookRet, raw,
          preEnrich, abi, lookups, result, resolved, filterRun>>

---------------------------------------------------------------------------
(* Bounds *)

\* longest candidate ABI the bytecode extractor yields
MaxAbi == 2
\* longest hit list a signature lookup yields
MaxHits == 3

---------------------------------------------------------------------------
(* JavaScript truthiness, for the values the model uses *)

Falsy == {"undefined", "false", "null", "0", ""}

Truthy(v) == v \notin Falsy

\* Object.assign(target, source): the attributes of source override
ObjectAssign(target, source) == source @@ target

\* delete(obj[key])
Delete(obj, key) == [k \in (DOMAIN obj) \ {key} |-> obj[k]]

\* obj[key] = value
SetAttr(obj, key, value) == (key :> value) @@ obj

---------------------------------------------------------------------------
(* Inputs *)

ContractAddress == "0x4A137FD5e7a256eF08A7De531A17D0BE0cc7B6b6"
ResolvedAddress == "0xd8dA6BF26964aF9D7eEd9e03E53415D37aA96045"
EnsName == "vitalik.eth"
\* 42 characters without the 0x prefix, and a 0x prefix without the length
UnprefixedName == "4A137FD5e7a256eF08A7De531A17D0BE0cc7B6b6.x"
ShortHex == "0x4A137F"
\* 42 characters with the 0x prefix, none of the other 40 a hex digit
NonHexAddress == "0xZZZZZZZZZZZZZZZZZZZZZZZZZZZZZZZZZZZZZZZZ"

Inputs == {ContractAddress, EnsName, UnprefixedName, ShortHex, NonHexAddress}

\* provider.resolveName yields an address or null
ResolveResults == {ResolvedAddress, "null"}

NoConfig ==
    [defined |-> FALSE, provider |-> "undefined", abiLoader |-> "undefined",
     signatureLookup |-> "undefined", onError |-> "undefined",
     enableExperimentalMetadata |-> "undefined"]

Configs ==
    {NoConfig} \cup
    [defined : {TRUE},
     provider : {"provider", "undefined"},
     abiLoader : {"loader", "false", "undefined"},
     signatureLookup : {"lookup", "false", "undefined"},
     onError : {"hook", "undefined"},
     enableExperimentalMetadata : {"true", "false", "undefined"}]

\* what a caller-supplied onError hook may return
HookReturns == {"true", "false", "undefined", "1"}

---------------------------------------------------------------------------
(* Helpers of autoload *)

\* auto.ts:8-10 without the prefix test
isAddress_LengthOnly(a) == Len(a) = 42

\* auto.ts:8-10
isAddress(a) == Len(a) = 42 /\ SubSeq(a, 1, 2) = "0x"

\* loaders.ts (not part of the available source): the registry used when
\* config.abiLoader is left unset
defaultABILoader == "loader"

\* loaders.ts (not part of the available source); the specification states
\* that an unset signatureLookup defaults to disabled
defaultSignatureLookup == "false"

\* auto.ts:41-42
EffectiveABILoader(cfg) ==
    IF cfg.abiLoader = "undefined" THEN defaultABILoader ELSE cfg.abiLoader

\* auto.ts:70-71
EffectiveSignatureLookup(cfg) ==
    IF cfg.signatureLookup = "undefined" THEN defaultSignatureLookup
    ELSE cfg.signatureLookup

\* auto.ts:66 with the test dropped: the filter runs whatever the flag
FilterApplies_Always(cfg) == TRUE

\* auto.ts:66: the filter runs unless enableExperimentalMetadata is truthy
FilterApplies(cfg) == ~Truthy(cfg.enableExperimentalMetadata)

\* auto.ts:72 testing for undefined instead of any falsy value
SignatureLookupDisabled_OnlyUndefined(sl) == sl = "undefined"

\* auto.ts:72: autoload bails out when the effective signatureLookup is falsy
SignatureLookupDisabled(sl) == ~Truthy(sl)

\* auto.ts:54, with the length test off by one
RegistryShortCircuits_OffByOne(loaded) == Len(loaded) > 1

\* auto.ts:54: a non-empty registry ABI ends the pipeline
RegistryShortCircuits(loaded) == Len(loaded) > 0

\* auto.ts:57: the hook's return value aborts only when it is exactly true
HookAborts(v) == v = "true"

\* auto.ts:14: the default error hook logs and returns false
DefaultOnErrorReturn == "false"

---------------------------------------------------------------------------
(* Registry ABIs: what abiLoader.loadABI may yield *)

VerifiedCall ==
    [type |-> "function", name |-> "call", constant |-> FALSE,
     payable |-> FALSE, inputs |-> <<"address", "uint256", "bytes">>,
     outputs |-> <<>>]

VerifiedTransfer ==
    [type |-> "event", name |-> "Transfer", anonymous |-> FALSE,
     inputs |-> <<"address", "address", "uint256">>]

RegistryABIs == {<<>>, <<VerifiedCall>>, <<VerifiedTransfer, VerifiedCall>>}

---------------------------------------------------------------------------
(* Bytecode and the candidate extractor (disasm.ts, not part of the        *)
(* available source).  A bytecode is abstracted to the sequence of the     *)
(* dispatch candidates the static analysis finds in it.                    *)

SelectorCall == "0x6dbf2fa0"
SelectorOther == "0xec0ab6a7"
TopicTransfer == "0xddf252ad"

Candidates ==
    { [kind |-> "selector", id |-> SelectorCall, returns |-> TRUE],
      [kind |-> "selector", id |-> SelectorOther, returns |-> FALSE],
      [kind |-> "topic", id |-> TopicTransfer, returns |-> FALSE] }

\* the dispatch table is keyed by selector and the topic set by hash, so a
\* candidate occurs at most once in a bytecode
Bytecodes ==
    { code \in UNION { [1..n -> Candidates] : n \in 0..MaxAbi } :
        \A i, j \in 1..Len(code) : code[i] = code[j] => i = j }

\* one candidate as the ABI entry the extractor emits for it
CandidateEntry(c) ==
    IF c.kind = "selector"
    THEN LET f == [type |-> "function", selector |-> c.id, payable |-> TRUE,
                   stateMutability |-> "payable", inputs |-> <<"bytes">>]
         IN IF c.returns THEN SetAttr(f, "outputs", <<"bytes">>) ELSE f
    ELSE [type |-> "event", hash |-> c.id]

abiFromBytecode(code) == [i \in 1..Len(code) |-> CandidateEntry(code[i])]

---------------------------------------------------------------------------
(* The reliability filter *)

\* auto.ts:115-125 pushing the extracted entry itself instead of a fresh
\* {type, selector} object
stripUnreliableABI_KeepAttributes(a) ==
    SelectSeq(a, LAMBDA e : e.type = "function")

\* auto.ts:115-125 with a loop that starts at the second entry
stripUnreliableABI_SkipFirst(a) ==
    LET fs == SelectSeq(IF a = <<>> THEN <<>> ELSE Tail(a),
                        LAMBDA e : e.type = "function")
    IN [k \in 1..Len(fs) |-> [type |-> "function", selector |-> fs[k].selector]]

RECURSIVE stripUnreliableABI(_)
\* auto.ts:115-125
stripUnreliableABI(a) ==
    IF a = <<>> THEN <<>>
    ELSE IF Head(a).type # "function" THEN stripUnreliableABI(Tail(a))
    ELSE <<[type |-> "function", selector |-> Head(a).selector]>>
         \o stripUnreliableABI(Tail(a))

---------------------------------------------------------------------------
(* Signature texts and the fragment parser                                 *)
(* (Fragment.from(kind + " " + sig).format("json") of @ethersproject/abi,  *)
(* on the well-formed signature texts the lookups yield)                   *)

SigCall == "call(address,uint256,bytes)"
SigBalanceOf == "balanceOf(address) view returns (uint256)"
SigTransfer == "Transfer(address,address,uint256)"

FunctionSigs == {SigCall, SigBalanceOf}
EventSigs == {SigTransfer}

\* the parts of a signature text
SigParts(sig) ==
    CASE sig = SigCall ->
           [name |-> "call", inputs |-> <<"address", "uint256", "bytes">>,
            outputs |-> <<>>, stateMutability |-> "nonpayable"]
      [] sig = SigBalanceOf ->
           [name |-> "balanceOf", inputs |-> <<"address">>,
            outputs |-> <<"uint256">>, stateMutability |-> "view"]
      [] sig = SigTransfer ->
           [name |-> "Transfer", inputs |-> <<"address", "address", "uint256">>,
            outputs |-> <<>>, stateMutability |-> "nonpayable"]

\* JSON.parse(Fragment.from("function " + sig).format("json")): undefined
\* attributes (a nonpayable stateMutability) are not serialised
FunctionFragmentJson(sig) ==
    LET p == SigParts(sig)
        j == [type |-> "function", name |-> p.name,
              constant |-> p.stateMutability = "view",
              payable |-> p.stateMutability = "payable",
              inputs |-> p.inputs, outputs |-> p.outputs]
    IN IF p.stateMutability # "nonpayable"
       THEN SetAttr(j, "stateMutability", p.stateMutability) ELSE j

\* JSON.parse(Fragment.from("event " + sig).format("json"))
EventFragmentJson(sig) ==
    LET p == SigParts(sig)
    IN [type |-> "event", anonymous |-> FALSE, name |-> p.name,
        inputs |-> p.inputs]

\* the hit lists a lookup may resolve with: any signature texts, in any
\* order and with repetition, which auto.ts:81-106 takes as they come
HitLists(sigs) == UNION { [1..n -> sigs] : n \in 0..MaxHits }

---------------------------------------------------------------------------
(* The per-entry callbacks of the enrichment stage *)

\* auto.ts:81-96 assigning sigAlts whatever the number of hits
FunctionThen_AlwaysAlts(a, r) ==
    LET a1 == IF Len(r) >= 1
              THEN LET extracted == FunctionFragmentJson(r[1])
                       merged == IF Len(extracted.outputs) = 0
                                 THEN Delete(extracted, "outputs")
                                 ELSE extracted
                   IN ObjectAssign(SetAttr(a, "sig", r[1]), merged)
              ELSE a
    IN SetAttr(a1, "sigAlts", SubSeq(r, 2, Len(r)))

\* auto.ts:81-96 with r.slice(0) for r.slice(1)
FunctionThen_SliceAll(a, r) ==
    LET a1 == IF Len(r) >= 1
              THEN LET extracted == FunctionFragmentJson(r[1])
                       merged == IF Len(extracted.outputs) = 0
                                 THEN Delete(extracted, "outputs")
                                 ELSE extracted
                   IN ObjectAssign(SetAttr(a, "sig", r[1]), merged)
              ELSE a
    IN IF Len(r) > 1 THEN SetAttr(a1, "sigAlts", r) ELSE a1

\* auto.ts:81-96 without the delete of lines 87-91
FunctionThen_NoDelete(a, r) ==
    LET a1 == IF Len(r) >= 1
              THEN ObjectAssign(SetAttr(a, "sig", r[1]),
                                FunctionFragmentJson(r[1]))
              ELSE a
    IN IF Len(r) > 1 THEN SetAttr(a1, "sigAlts", SubSeq(r, 2, Len(r))) ELSE a1

\* auto.ts:81-96: the callback of loadFunctions(a.selector), on entry a
FunctionThen(a, r) ==
    LET a1 == IF Len(r) >= 1
              THEN LET extracted == FunctionFragmentJson(r[1])
                       merged == IF Len(extracted.outputs) = 0
                                 THEN Delete(extracted, "outputs")
                                 ELSE extracted
                   IN ObjectAssign(SetAttr(a, "sig", r[1]), merged)
              ELSE a
    IN IF Len(r) > 1 THEN SetAttr(a1, "sigAlts", SubSeq(r, 2, Len(r))) ELSE a1

\* auto.ts:98-106 parsing the hit as a function, as the branch above does
EventThen_AsFunction(a, r) ==
    LET a1 == IF Len(r) >= 1
              THEN ObjectAssign(SetAttr(a, "sig", r[1]),
                                FunctionFragmentJson(r[1]))
              ELSE a
    IN IF Len(r) > 1 THEN SetAttr(a1, "sigAlts", SubSeq(r, 2, Len(r))) ELSE a1

\* auto.ts:98-106: the callback of loadEvents(a.hash), on entry a
EventThen(a, r) ==
    LET a1 == IF Len(r) >= 1
              THEN ObjectAssign(SetAttr(a, "sig", r[1]),
                                EventFragmentJson(r[1]))
              ELSE a
    IN IF Len(r) > 1 THEN SetAttr(a1, "sigAlts", SubSeq(r, 2, Len(r))) ELSE a1

\* the entries collected in completion order instead of mutated in place
Enriched_CompletionOrder(entries, i, r) ==
    LET e == IF entries[i].type = "function" THEN FunctionThen(entries[i], r)
             ELSE EventThen(entries[i], r)
    IN [k \in 1..Len(entries) |->
          IF k < i THEN entries[k]
          ELSE IF k < Len(entries) THEN entries[k + 1] ELSE e]

\* auto.ts:79-107 with a loop variable shared by all callbacks: every
\* callback writes the entry the loop ended on
Enriched_LastEntry(entries, i, r) ==
    [entries EXCEPT ![Len(entries)] =
        IF @.type = "function" THEN FunctionThen(@, r) ELSE EventThen(@, r)]

\* auto.ts:79-107: the callback of the lookup issued for entry i mutates
\* that entry object in place; the array itself is not touched
Enriched(entries, i, r) ==
    [entries EXCEPT ![i] = IF @.type = "function" THEN FunctionThen(@, r)
                           ELSE EventThen(@, r)]

\* auto.ts:79-107: the lookup the loop issues for an entry
LookupCall(a) ==
    IF a.type = "function" THEN <<"loadFunctions", a.selector>>
    ELSE <<"loadEvents", a.hash>>

\* auto.ts:79-108 awaiting each lookup inside the loop: only the first
\* query is outstanding when the loop suspends
LookupsIssued_Sequential(entries) ==
    {i \in 1..Len(entries) : i = 1 /\ entries[i].type \in {"function", "event"}}

\* auto.ts:79-108: the entries the loop issues a lookup for before the
\* await of line 110; it pushes one promise per function or event entry
LookupsIssued(entries) ==
    {i \in 1..Len(entries) : entries[i].type \in {"function", "event"}}

\* auto.ts:79-108: the calls of the loop, in the order it makes them
LookupCalls(entries) ==
    LET idx == SelectSeq([i \in 1..Len(entries) |-> i],
                         LAMBDA i : i \in LookupsIssued(entries))
    IN [k \in 1..Len(idx) |-> LookupCall(entries[idx[k]])]

\* auto.ts:110 with a join that tests the outstanding set before the
\* settling promise has left it, and so never completes
JoinComplete_Never(pending, i) == pending = {}

\* auto.ts:110: Promise.all fulfils when the last outstanding promise does
JoinComplete(pending, i) == pending = {i}

\* the hit lists the lookup of an entry may resolve with
LookupHits(a) ==
    IF a.type = "function" THEN HitLists(FunctionSigs) ELSE HitLists(EventSigs)

---------------------------------------------------------------------------
(* The stages of autoload, up to the next await *)

\* auto.ts:61-63: emit getCode and call provider.getCode; reading getCode
\* off a missing provider raises a TypeError
BytecodeStage(cfg, a, ev) ==
    LET ev1 == Append(ev, <<"onProgress", "getCode">>)
    IN IF cfg.provider = "undefined"
       THEN [pc |-> "raised", events |-> ev1]
       ELSE [pc |-> "getCode",
             events |-> Append(ev1, <<"provider.getCode", a>>)]

\* auto.ts:49-63 fetching the bytecode while loadABI is still outstanding
RegistryStage_Prefetch(cfg, a, ev) ==
    IF Truthy(EffectiveABILoader(cfg))
    THEN [pc |-> "abiLoad",
          events |-> ev \o << <<"onProgress", "abiLoader">>,
                              <<"abiLoader.loadABI", a>>,
                              <<"provider.getCode", a>> >>]
    ELSE BytecodeStage(cfg, a, ev)

\* auto.ts:49-53: emit abiLoader and call loadABI when a loader is set
RegistryStage(cfg, a, ev) ==
    IF Truthy(EffectiveABILoader(cfg))
    THEN [pc |-> "abiLoad",
          events |-> ev \o << <<"onProgress", "abiLoader">>,
                              <<"abiLoader.loadABI", a>> >>]
    ELSE BytecodeStage(cfg, a, ev)

\* auto.ts:44-47: a name is resolved through the provider
NormalizeStage(cfg, a, ev) ==
    IF ~isAddress(a)
    THEN LET ev1 == Append(ev, <<"onProgress", "resolveName">>)
         IN IF cfg.provider = "undefined"
            THEN [pc |-> "raised", events |-> ev1]
            ELSE [pc |-> "resolveName",
                  events |-> Append(ev1, <<"provider.resolveName", a>>)]
    ELSE RegistryStage(cfg, a, ev)

\* no stand-alone run of the filter is under way
NoFilterRun ==
    [stage |-> "none", candidate |-> <<>>, once |-> <<>>, twice |-> <<>>]

\* the lookups still outstanding
Pending == {i \in 1..Len(lookups) : lookups[i].status = "pending"}

Settled == pc \in {"returned", "raised"}

---------------------------------------------------------------------------
(* State machine *)

Init ==
    /\ config \in Configs
    /\ input \in Inputs
    /\ address = input
    /\ pc = "start"
    /\ events = <<>>
    /\ registry = [status |-> "none", abi |-> <<>>]
    /\ hookRet = "none"
    /\ raw = <<>>
    /\ preEnrich = <<>>
    /\ abi = <<>>
    /\ lookups = <<>>
    /\ result = <<>>
    /\ resolved = "none"
    /\ filterRun = NoFilterRun

\* auto.ts:33-63: the call of autoload, up to its first await.  Reading
\* config.onProgress off an undefined config (line 34) raises a TypeError
\* before the test of line 38 is reached.
Autoload ==
    /\ pc = "start"
    /\ LET stage == IF ~config.defined
                    THEN [pc |-> "raised", events |-> events]
                    ELSE NormalizeStage(config, address, events)
       IN /\ pc' = stage.pc
          /\ events' = stage.events
    /\ UNCHANGED <<filterRun, resolved, config, input,
                   address, registry, hookRet, raw,
                   preEnrich, abi, lookups, result>>

\* auto.ts:46-63: provider.resolveName resolves with an address or null
ResolveNameResolves ==
    /\ pc = "resolveName"
    /\ \E r \in ResolveResults :
          /\ resolved' = r
          /\ address' = IF Truthy(r) THEN r ELSE address
          /\ LET stage == RegistryStage(config, address', events)
             IN /\ pc' = stage.pc
                /\ events' = stage.events
    /\ UNCHANGED <<filterRun, config, input, registry, hookRet, raw,
                   preEnrich, abi, lookups, result>>

\* auto.ts:46: provider.resolveName rejects; nothing catches it
ResolveNameRejects ==
    /\ pc = "resolveName"
    /\ pc' = "raised"
    /\ UNCHANGED <<filterRun, resolved, config, input,
                   address, events, registry, hookRet, raw,
                   preEnrich, abi, lookups, result>>

\* auto.ts:53-63: loadABI resolves
LoadABIResolves ==
    /\ pc = "abiLoad"
    /\ \E loaded \in RegistryABIs :
          /\ registry' = [status |-> "resolved", abi |-> loaded]
          /\ IF RegistryShortCircuits(loaded)
             THEN /\ pc' = "returned"
                  /\ result' = loaded
                  /\ UNCHANGED events
             ELSE LET stage == BytecodeStage(config, address, events)
                  IN /\ pc' = stage.pc
                     /\ events' = stage.events
                     /\ UNCHANGED result
    /\ UNCHANGED <<filterRun, resolved, config, input,
                   address, hookRet, raw, preEnrich, abi,
                   lookups>>

\* auto.ts:55-63: loadABI rejects and the error hook (config.onError, or
\* the default of line 14) is consulted
LoadABIRejects ==
    /\ pc = "abiLoad"
    /\ registry' = [status |-> "rejected", abi |-> <<>>]
    /\ \E v \in (IF Truthy(config.onError) THEN HookReturns
                 ELSE {DefaultOnErrorReturn}) :
          /\ hookRet' = v
          /\ LET ev1 == Append(events, <<"onError", "abiLoad">>)
             IN IF HookAborts(v)
                THEN /\ pc' = "returned"
                     /\ result' = <<>>
                     /\ events' = ev1
                ELSE LET stage == BytecodeStage(config, address, ev1)
                     IN /\ pc' = stage.pc
                        /\ events' = stage.events
                        /\ UNCHANGED result
    /\ UNCHANGED <<filterRun, resolved, config, input,
                   address, raw, preEnrich, abi, lookups>>

\* auto.ts:63: provider.getCode rejects; nothing catches it
GetCodeRejects ==
    /\ pc = "getCode"
    /\ pc' = "raised"
    /\ UNCHANGED <<filterRun, resolved, config, input,
                   address, events, registry, hookRet, raw,
                   preEnrich, abi, lookups, result>>

\* auto.ts:63-112: provider.getCode resolves; extraction, filtering and the
\* loop that issues one lookup per entry run without an await in between
GetCodeResolves ==
    /\ pc = "getCode"
    /\ \E code \in Bytecodes :
          LET extracted == abiFromBytecode(code)
              filtered == IF FilterApplies(config)
                          THEN stripUnreliableABI(extracted)
                          ELSE extracted
              ev1 == Append(events, <<"abiFromBytecode", "code">>)
          IN /\ raw' = extracted
             /\ preEnrich' = filtered
             /\ abi' = filtered
             /\ IF SignatureLookupDisabled(EffectiveSignatureLookup(config))
                THEN /\ pc' = "returned"
                     /\ result' = filtered
                     /\ events' = ev1
                     /\ UNCHANGED lookups
                ELSE /\ events' = Append(ev1, <<"onProgress", "signatureLookup">>)
                                  \o LookupCalls(filtered)
                     /\ lookups' = [i \in 1..Len(filtered) |->
                                      [status |-> IF i \in LookupsIssued(filtered)
                                                  THEN "pending" ELSE "none",
                                       hits |-> <<>>]]
                     /\ IF LookupsIssued(filtered) = {}
                        THEN pc' = "returned" /\ result' = filtered
                        ELSE pc' = "lookups" /\ UNCHANGED result
    /\ UNCHANGED <<filterRun, resolved, config, input,
                   address, registry, hookRet>>

\* auto.ts:81-96, 98-106, 110-112: the lookup of entry i resolves and its
\* callback mutates the entry; Promise.all resolves with the last of them
LookupResolves(i) ==
    /\ i \in Pending
    /\ \E r \in LookupHits(abi[i]) :
          /\ abi' = Enriched(abi, i, r)
          /\ lookups' = [lookups EXCEPT ![i] = [status |-> "resolved",
                                                hits |-> r]]
          /\ IF pc = "lookups" /\ JoinComplete(Pending, i)
             THEN pc' = "returned" /\ result' = abi'
             ELSE UNCHANGED <<pc, result>>
    /\ UNCHANGED <<filterRun, resolved, config, input,
                   address, events, registry, hookRet, raw,
                   preEnrich>>

\* auto.ts:81, 98, 110 with a rejection handler that reports the failed
\* lookup to the error hook
LookupRejects_CallsHook(i) ==
    /\ i \in Pending
    /\ lookups' = [lookups EXCEPT ![i] = [status |-> "rejected",
                                          hits |-> <<>>]]
    /\ events' = Append(events, <<"onError", "signatureLookup">>)
    /\ pc' = IF pc = "lookups" THEN "raised" ELSE pc
    /\ UNCHANGED <<filterRun, resolved, config, input, address, registry,
                   hookRet, raw, preEnrich, abi, result>>

\* auto.ts:81, 98, 110: the lookup of entry i rejects; the rejection passes
\* through then() to Promise.all, which rejects at the first rejection
LookupRejects(i) ==
    /\ i \in Pending
    /\ lookups' = [lookups EXCEPT ![i] = [status |-> "rejected",
                                          hits |-> <<>>]]
    /\ pc' = IF pc = "lookups" THEN "raised" ELSE pc
    /\ UNCHANGED <<filterRun, resolved, config, input,
                   address, events, registry, hookRet, raw,
                   preEnrich, abi, result>>

Next ==
    \/ Autoload
    \/ ResolveNameResolves
    \/ ResolveNameRejects
    \/ LoadABIResolves
    \/ LoadABIRejects
    \/ GetCodeRejects
    \/ GetCodeResolves
    \/ \E i \in 1..MaxAbi + 1 : LookupResolves(i)
    \/ \E i \in 1..MaxAbi + 1 : LookupRejects(i)

Spec == Init /\ [][Next]_vars

\* the call runs, and every capability call that was made settles, by
\* fulfilment or by rejection
Fairness ==
    /\ WF_vars(Autoload)
    /\ WF_vars(ResolveNameResolves \/ ResolveNameRejects)
    /\ WF_vars(LoadABIResolves \/ LoadABIRejects)
    /\ WF_vars(GetCodeResolves \/ GetCodeRejects)
    /\ \A i \in 1..MaxAbi + 1 : WF_vars(LookupResolves(i) \/ LookupRejects(i))

\* one address and one name: which name is resolved does not bear on
\* whether the call settles
LiveInit == Init /\ input \in {ContractAddress, EnsName}

LiveSpec == LiveInit /\ [][Next]_vars /\ Fairness

---------------------------------------------------------------------------
(* The reliability filter on its own: stripUnreliableABI applied to a      *)
(* candidate ABI and then to its own output                                *)

\* the entries a candidate ABI is made of: extracted entries, with and
\* without metadata, filtered ones and enriched ones
FilterEntries ==
    { CandidateEntry(c) : c \in Candidates } \cup
    { [type |-> "function", selector |-> SelectorOther],
      FunctionThen([type |-> "function", selector |-> SelectorCall],
                   <<SigCall, SigBalanceOf>>),
      EventThen([type |-> "event", hash |-> TopicTransfer], <<SigTransfer>>) }

CandidateABIs == UNION { [1..n -> FilterEntries] : n \in 0..MaxAbi }

FilterInit ==
    /\ config = NoConfig
    /\ input = ContractAddress
    /\ address = ContractAddress
    /\ pc = "idle"
    /\ events = <<>>
    /\ registry = [status |-> "none", abi |-> <<>>]
    /\ hookRet = "none"
    /\ raw = <<>>
    /\ preEnrich = <<>>
    /\ abi = <<>>
    /\ lookups = <<>>
    /\ result = <<>>
    /\ resolved = "none"
    /\ \E c \in CandidateABIs :
          filterRun = [stage |-> "candidate", candidate |-> c,
                       once |-> <<>>, twice |-> <<>>]

\* auto.ts:115-125: stripUnreliableABI(candidate)
FilterOnce ==
    /\ filterRun.stage = "candidate"
    /\ filterRun' = [filterRun EXCEPT
                       !.stage = "once",
                       !.once = stripUnreliableABI(filterRun.candidate)]
    /\ UNCHANGED <<config, input, address, pc, events, registry, hookRet,
                   raw, preEnrich, abi, lookups, result, resolved>>

\* auto.ts:115-125: stripUnreliableABI(stripUnreliableABI(candidate))
FilterTwice ==
    /\ filterRun.stage = "once"
    /\ filterRun' = [filterRun EXCEPT
                       !.stage = "twice",
                       !.twice = stripUnreliableABI(filterRun.once)]
    /\ UNCHANGED <<config, input, address, pc, events, registry, hookRet,
                   raw, preEnrich, abi, lookups, result, resolved>>

FilterNext == FilterOnce \/ FilterTwice

FilterSpec == FilterInit /\ [][FilterNext]_vars

---------------------------------------------------------------------------
(* Vocabulary of the properties *)

\* some call or hook invocation op is in the log
Emitted(op) == \E k \in 1..Len(events) : events[k][1] = op

\* the progress hook was invoked with this phase
Progress(phase) == \E k \in 1..Len(events) : events[k] = <<"onProgress", phase>>

BytecodeStageInvoked ==
    Progress("getCode") \/ Emitted("provider.getCode") \/ Emitted("abiFromBytecode")

LookupIssued == Emitted("loadFunctions") \/ Emitted("loadEvents")

\* the function entries of an ABI, in order
FunctionEntries(s) == SelectSeq(s, LAMBDA e : e.type = "function")

\* what identifies an entry within an ABI
EntryKey(e) ==
    IF e.type = "function" THEN <<"function", e.selector>>
    ELSE <<"event", e.hash>>

\* the registry stage did not end the call
RegistryDisabledOrEmpty ==
    \/ config.defined /\ config.abiLoader = "false"
    \/ registry.status = "resolved" /\ registry.abi = <<>>

ResolvedWith(i) == lookups[i].status = "resolved"

---------------------------------------------------------------------------
(* Properties *)

\* C1: once loadABI has resolved with a non-empty ABI, autoload has returned
\* exactly that ABI and neither the bytecode stage nor any signature lookup
\* was invoked.
C1_RegistryShortCircuit ==
    (registry.status = "resolved" /\ Len(registry.abi) > 0) =>
        /\ pc = "returned"
        /\ result = registry.abi
        /\ ~BytecodeStageInvoked
        /\ ~LookupIssued

C1_Witness ==
    /\ registry.status = "resolved"
    /\ registry.abi = <<VerifiedTransfer, VerifiedCall>>
    /\ pc = "returned"
    /\ result = <<VerifiedTransfer, VerifiedCall>>

\* C2: when loadABI fails the error hook is invoked with phase abiLoad; a
\* truthy return makes autoload return the empty ABI without the bytecode
\* stage or a lookup, a falsy one lets it continue to getCode.
C2_HookTruthyAborts ==
    registry.status = "rejected" =>
        /\ events # <<>>
        /\ \E k \in 1..Len(events) : events[k] = <<"onError", "abiLoad">>
        /\ Truthy(hookRet) =>
              /\ pc = "returned"
              /\ result = <<>>
              /\ ~BytecodeStageInvoked
              /\ ~LookupIssued
        /\ ~Truthy(hookRet) => Progress("getCode")

\* C3: a failed per-entry lookup does not make autoload raise; once all
\* lookups have settled autoload has returned, with the failed entry as it
\* was before enrichment.
C3_LookupFailureTolerated ==
    (\E i \in 1..Len(lookups) : lookups[i].status = "rejected") =>
        /\ pc # "raised"
        /\ Pending = {} =>
              /\ pc = "returned"
              /\ Len(result) = Len(preEnrich)
              /\ \A i \in 1..Len(lookups) :
                    lookups[i].status = "rejected" => result[i] = preEnrich[i]

\* C4: without a config, or with a config that lacks the provider, autoload
\* raises before any progress event, capability call or error hook
\* invocation, and never returns an ABI.
C4_ConfigErrorImmediate ==
    ((~config.defined \/ config.provider = "undefined") /\ pc # "start") =>
        /\ pc = "raised"
        /\ events = <<>>

\* C5: autoload has not completed (returned or raised) while a lookup it
\* issued is still pending.
C5_JoinAll == Settled => Pending = {}

\* C6: with enableExperimentalMetadata unset or false, the ABI handed to
\* enrichment is exactly the function entries of the extractor's output, in
\* extraction order, each with only type and selector; it is returned as-is
\* when signature lookup is disabled.
C6_FilteredCandidates ==
    (Emitted("abiFromBytecode")
       /\ config.enableExperimentalMetadata \in {"undefined", "false"}) =>
        LET fs == FunctionEntries(raw)
        IN /\ Len(preEnrich) = Len(fs)
           /\ \A k \in 1..Len(fs) :
                 /\ DOMAIN preEnrich[k] = {"type", "selector"}
                 /\ preEnrich[k].type = "function"
                 /\ preEnrich[k].selector = fs[k].selector
           /\ config.signatureLookup = "false" =>
                 pc = "returned" /\ result = preEnrich

C6_Witness ==
    /\ Emitted("abiFromBytecode")
    /\ config.enableExperimentalMetadata = "undefined"
    /\ config.signatureLookup = "false"
    /\ Len(raw) = 2
    /\ raw[1].type = "event"
    /\ raw[2].type = "function" /\ "outputs" \in DOMAIN raw[2]
    /\ pc = "returned"
    /\ result = <<[type |-> "function", selector |-> SelectorCall]>>

\* C7 as stated: in the returned ABI every entry whose lookup resolved with
\* one or more hits has sig equal to the first hit and sigAlts equal to the
\* remaining hits, the empty list when there is exactly one hit.
C7_SigAltsIsRemainder ==
    (pc = "returned" /\ LookupIssued) =>
        \A i \in 1..Len(lookups) :
            (ResolvedWith(i) /\ Len(lookups[i].hits) >= 1) =>
                /\ "sig" \in DOMAIN result[i]
                /\ result[i].sig = lookups[i].hits[1]
                /\ "sigAlts" \in DOMAIN result[i]
                /\ result[i].sigAlts = Tail(lookups[i].hits)

\* C7 amended: in the returned ABI every entry whose lookup resolved with
\* one or more hits has sig equal to the first hit; with two or more hits
\* its sigAlts equals the remaining hits in order, and with exactly one hit
\* the entry carries no sigAlts attribute.
C7_SigAndAlts ==
    (pc = "returned" /\ LookupIssued) =>
        \A i \in 1..Len(lookups) :
            (ResolvedWith(i) /\ Len(lookups[i].hits) >= 1) =>
                /\ "sig" \in DOMAIN result[i]
                /\ result[i].sig = lookups[i].hits[1]
                /\ Len(lookups[i].hits) > 1 =>
                      /\ "sigAlts" \in DOMAIN result[i]
                      /\ result[i].sigAlts = Tail(lookups[i].hits)
                /\ Len(lookups[i].hits) = 1 => "sigAlts" \notin DOMAIN result[i]

C7_Witness ==
    /\ pc = "returned"
    /\ Len(lookups) = 2
    /\ ResolvedWith(1)
    /\ lookups[1].hits = <<SigCall, SigBalanceOf, SigCall>>
    /\ ResolvedWith(2) /\ lookups[2].hits = <<SigBalanceOf>>
    /\ result[1].sig = SigCall
    /\ result[1].sigAlts = <<SigBalanceOf, SigCall>>
    /\ result[2].sig = SigBalanceOf /\ "sigAlts" \notin DOMAIN result[2]

\* C8: in the returned ABI every entry whose lookup resolved with zero hits
\* is identical to its pre-enrichment state, whatever the other lookups
\* resolved with.
C8_ZeroHitsUnchanged ==
    \A i \in 1..Len(lookups) :
        (ResolvedWith(i) /\ lookups[i].hits = <<>>) =>
            /\ abi[i] = preEnrich[i]
            /\ pc = "returned" => result[i] = preEnrich[i]

C8_Witness ==
    /\ pc = "returned"
    /\ Len(lookups) = 2
    /\ ResolvedWith(1) /\ lookups[1].hits = <<SigCall>>
    /\ ResolvedWith(2) /\ lookups[2].hits = <<>>
    /\ "sig" \in DOMAIN result[1]
    /\ result[2] = [type |-> "function", selector |-> SelectorOther]

\* C9: enrichment never reorders, adds or removes entries: at every point
\* of every interleaving of lookup completions the ABI has the entries the
\* enrichment stage started with, in the same order, and so has the result.
C9_DiscoveryOrder ==
    Emitted("abiFromBytecode") =>
        /\ Len(abi) = Len(preEnrich)
        /\ \A i \in 1..Len(abi) : EntryKey(abi[i]) = EntryKey(preEnrich[i])
        /\ pc = "returned" =>
              /\ Len(result) = Len(preEnrich)
              /\ \A i \in 1..Len(result) :
                    EntryKey(result[i]) = EntryKey(preEnrich[i])

C9_Witness ==
    /\ pc = "returned"
    /\ Len(result) = 2 /\ Len(preEnrich) = 2 /\ Len(lookups) = 2
    /\ EntryKey(preEnrich[1]) = <<"function", SelectorOther>>
    /\ EntryKey(preEnrich[2]) = <<"function", SelectorCall>>
    /\ ResolvedWith(1) /\ ResolvedWith(2)
    /\ "sig" \in DOMAIN result[1] /\ "sig" \in DOMAIN result[2]

\* C10: when the registry is disabled or resolved empty, every function
\* entry of the returned ABI carries the selector of some function entry
\* the extractor produced.
C10_SelectorsFromBytecode ==
    (pc = "returned" /\ RegistryDisabledOrEmpty) =>
        \A k \in 1..Len(result) :
            result[k].type = "function" =>
                /\ "selector" \in DOMAIN result[k]
                /\ \E j \in 1..Len(raw) :
                      /\ raw[j].type = "function"
                      /\ raw[j].selector = result[k].selector

C10_Witness ==
    /\ pc = "returned"
    /\ registry.status = "resolved" /\ registry.abi = <<>>
    /\ config.enableExperimentalMetadata = "true"
    /\ Len(result) = 2
    /\ result[1].type = "event" /\ "sig" \in DOMAIN result[1]
    /\ result[2].type = "function" /\ "sig" \in DOMAIN result[2]
    /\ result[2].selector = SelectorCall

C12_UnfilteredWhenEnabled ==
    Emitted("abiFromBytecode") =>
        /\ config.enableExperimentalMetadata = "true" =>
              /\ preEnrich = raw
              /\ config.signatureLookup = "false" =>
                    pc = "returned" /\ result = raw
        /\ config.enableExperimentalMetadata # "true" =>
              \A k \in 1..Len(preEnrich) :
                  DOMAIN preEnrich[k] = {"type", "selector"}

C12_Witness ==
    /\ Emitted("abiFromBytecode")
    /\ config.enableExperimentalMetadata = "true"
    /\ config.signatureLookup = "false"
    /\ pc = "returned"
    /\ Len(result) = 2
    /\ result[1] = [type |-> "event", hash |-> TopicTransfer]
    /\ result[2] = [type |-> "function", selector |-> SelectorCall,
                    payable |-> TRUE, stateMutability |-> "payable",
                    inputs |-> <<"bytes">>, outputs |-> <<"bytes">>]

\* the digits of a hex string, in either case
HexDigits ==
    {"0", "1", "2", "3", "4", "5", "6", "7", "8", "9",
     "a", "b", "c", "d", "e", "f", "A", "B", "C", "D", "E", "F"}

\* the fixed-length hex address format: 0x and 40 hex digits
HexAddressFormat(a) ==
    /\ Len(a) = 42
    /\ SubSeq(a, 1, 2) = "0x"
    /\ \A i \in 3..42 : SubSeq(a, i, i) \in HexDigits

\* 42 characters of which the first two are 0x, whatever the other 40
PrefixedFixedLength(a) == Len(a) = 42 /\ SubSeq(a, 1, 2) = "0x"

\* name resolution (the resolveName progress event, then
\* provider.resolveName on the input) is attempted exactly when the input
\* is not in the format Format; every later stage is called with the
\* resolution result when there is one and with the input otherwise
NameResolvedUnless(Format(_)) ==
    (config.defined /\ pc # "start") =>
        /\ Progress("resolveName") <=> ~Format(input)
        /\ Emitted("provider.resolveName") =>
              /\ ~Format(input)
              /\ Len(events) >= 2
              /\ events[1] = <<"onProgress", "resolveName">>
              /\ events[2] = <<"provider.resolveName", input>>
        /\ (config.provider = "provider" /\ ~Format(input)) =>
              Emitted("provider.resolveName")
        /\ Format(input) => resolved = "none"
        /\ \A k \in 1..Len(events) :
              events[k][1] \in {"abiLoader.loadABI", "provider.getCode"} =>
                  events[k][2] = IF Format(input) \/ resolved \in {"none", "null"}
                                 THEN input ELSE resolved

\* C13 as stated: name resolution is attempted exactly when the input is
\* not in the fixed-length hex address format (0x and 40 hex digits); the
\* later stages use the resolution result when there is one and the input
\* otherwise, and an input in that format is never resolved.
C13_HexAddressResolution == NameResolvedUnless(HexAddressFormat)

\* C13 amended: name resolution is attempted exactly when the input is not
\* a 42-character string starting with 0x, the other 40 characters not
\* being tested for hex digits; the later stages use the resolution result
\* when there is one and the input otherwise, and a 42-character input
\* starting with 0x is never resolved.
C13_NameResolution == NameResolvedUnless(PrefixedFixedLength)

\* a prefixed 42-character input that is not hex is passed through
C13_NonHexPassedThrough ==
    /\ input = NonHexAddress
    /\ ~Emitted("provider.resolveName")
    /\ \E k \in 1..Len(events) : events[k] = <<"abiLoader.loadABI", NonHexAddress>>

C13_Witness ==
    /\ input = UnprefixedName
    /\ resolved = "null"
    /\ \E k \in 1..Len(events) : events[k] = <<"abiLoader.loadABI", UnprefixedName>>
    /\ \E k \in 1..Len(events) : events[k] = <<"provider.getCode", UnprefixedName>>

\* C14: the reliability filter is idempotent: applied to its own output it
\* yields the ABI it yielded the first time, for every candidate ABI.
C14_FilterIdempotent ==
    filterRun.stage = "twice" => filterRun.twice = filterRun.once

C14_Witness ==
    /\ filterRun.stage = "twice"
    /\ Len(filterRun.candidate) = 2
    /\ filterRun.candidate[1].type = "function"
    /\ "sigAlts" \in DOMAIN filterRun.candidate[1]
    /\ filterRun.candidate[2].type = "event"
    /\ filterRun.once = <<[type |-> "function", selector |-> SelectorCall]>>
    /\ filterRun.twice = filterRun.once

\* the signature queries in the log, in the order they were issued
LoggedLookups ==
    SelectSeq(events, LAMBDA e : e[1] \in {"loadFunctions", "loadEvents"})

\* the query an entry is to get: functions by selector, events by hash
QueryOf(e) ==
    <<IF EntryKey(e)[1] = "function" THEN "loadFunctions" ELSE "loadEvents",
      EntryKey(e)[2]>>

\* C15: exactly one lookup is issued per function or event entry, and an
\* entry changes only in the step in which its own lookup resolves: no
\* other task writes it, and no step writes on behalf of two tasks.
C15_OneWriterPerEntry ==
    [][/\ Progress("signatureLookup")' =>
            /\ Len(lookups') = Len(preEnrich')
            /\ LoggedLookups' =
                  [i \in 1..Len(preEnrich') |-> QueryOf(preEnrich'[i])]
       /\ \A j \in 1..Len(abi) :
            (Len(abi') = Len(abi) /\ abi'[j] # abi[j]) =>
                /\ lookups[j].status = "pending"
                /\ lookups'[j].status = "resolved"
                /\ \A k \in (1..Len(lookups)) \ {j} :
                      lookups'[k] = lookups[k]]_vars

C15_Witness ==
    /\ Len(lookups) = 2
    /\ lookups[1].status = "pending"
    /\ lookups[2].status = "resolved" /\ Len(lookups[2].hits) >= 1
    /\ abi[1] = preEnrich[1]
    /\ abi[2] # preEnrich[2]

\* the place of a log entry in the pipeline
Rank(e) ==
    CASE e = <<"onProgress", "resolveName">> -> 1
      [] e[1] = "provider.resolveName" -> 2
      [] e = <<"onProgress", "abiLoader">> -> 3
      [] e[1] = "abiLoader.loadABI" -> 4
      [] e[1] = "onError" -> 5
      [] e = <<"onProgress", "getCode">> -> 6
      [] e[1] = "provider.getCode" -> 7
      [] e[1] = "abiFromBytecode" -> 8
      [] e = <<"onProgress", "signatureLookup">> -> 9
      [] e[1] \in {"loadFunctions", "loadEvents"} -> 10
      [] OTHER -> 0

\* the log entries of the stages after this rank
LaterThan(n) == \E k \in 1..Len(events) : Rank(events[k]) > n

\* C16: the stages run one after the other: while resolveName, loadABI or
\* getCode is outstanding no call or event of a later stage has been made,
\* lookups are issued only after extraction and filtering, and the log
\* follows the pipeline order with each progress event at most once.
C16_StagesSequential ==
    /\ \A k \in 1..Len(events) : Rank(events[k]) > 0
    /\ \A k \in 1..Len(events) - 1 :
          \/ Rank(events[k]) < Rank(events[k + 1])
          \/ Rank(events[k]) = 10 /\ Rank(events[k + 1]) = 10
    /\ pc = "resolveName" => ~LaterThan(2)
    /\ pc = "abiLoad" => ~LaterThan(4)
    /\ pc = "getCode" => ~LaterThan(7)
    /\ LookupIssued =>
          /\ Emitted("abiFromBytecode")
          /\ FilterApplies(config) =>
                \A k \in 1..Len(preEnrich) :
                    DOMAIN preEnrich[k] = {"type", "selector"}

C16_Witness ==
    /\ pc = "lookups"
    /\ Pending # {}
    /\ Progress("resolveName") /\ Progress("abiLoader")
    /\ Progress("getCode") /\ Progress("signatureLookup")
    /\ Emitted("onError")

\* C17: the queries are issued without waiting for one another: once the
\* enrichment stage has started, a query has been issued for every entry,
\* none was issued after another settled, and the loop leaves all of them
\* outstanding at once.
C17_AllIssuedUpFront ==
    [][/\ Progress("signatureLookup")' =>
            /\ Len(LoggedLookups') = Len(preEnrich')
            /\ \A i \in 1..Len(lookups') : lookups'[i].status # "none"
       /\ (pc = "getCode" /\ Progress("signatureLookup")') =>
            /\ Pending' = 1..Len(abi')
            /\ abi' = preEnrich'
       /\ Progress("signatureLookup") => events' = events]_vars

C17_Witness ==
    /\ pc = "lookups"
    /\ Len(abi) = 2
    /\ Pending = {1, 2}
    /\ Len(LoggedLookups) = 2
    /\ abi = preEnrich

\* the invocations of the error hook in the log
HookCalls == SelectSeq(events, LAMBDA e : e[1] = "onError")

\* C18: the error hook is invoked at most once, only with phase abiLoad and
\* only when loadABI has failed, right after that call; no outcome of
\* resolveName, getCode or a signature lookup, and no successful loadABI,
\* invokes it.
C18_HookOnlyOnRegistryFailure ==
    /\ Len(HookCalls) <= 1
    /\ \A k \in 1..Len(events) :
          events[k][1] = "onError" =>
              /\ events[k] = <<"onError", "abiLoad">>
              /\ k > 1 /\ events[k - 1][1] = "abiLoader.loadABI"
    /\ Len(HookCalls) = 1 <=> registry.status = "rejected"
    /\ hookRet # "none" <=> registry.status = "rejected"

C18_Witness ==
    /\ registry.status = "rejected"
    /\ HookCalls = << <<"onError", "abiLoad">> >>
    /\ resolved = "null"
    /\ pc = "raised"
    /\ \E i \in 1..Len(lookups) : lookups[i].status = "rejected"

\* C19: a function entry that has an outputs list and is enriched with a
\* signature whose parsed form has no outputs keeps its outputs, while the
\* other parsed fields (name, inputs, constant, payable) are merged into it.
C19_OutputsKept ==
    \A i \in 1..Len(lookups) :
        (/\ ResolvedWith(i) /\ Len(lookups[i].hits) >= 1
         /\ preEnrich[i].type = "function"
         /\ "outputs" \in DOMAIN preEnrich[i]
         /\ SigParts(lookups[i].hits[1]).outputs = <<>>) =>
            /\ "outputs" \in DOMAIN abi[i]
            /\ abi[i].outputs = preEnrich[i].outputs
            /\ abi[i].sig = lookups[i].hits[1]
            /\ abi[i].name = SigParts(lookups[i].hits[1]).name
            /\ abi[i].inputs = SigParts(lookups[i].hits[1]).inputs
            /\ abi[i].constant = FALSE
            /\ abi[i].payable = FALSE
            /\ pc = "returned" => result[i] = abi[i]

C19_Witness ==
    /\ pc = "returned"
    /\ Len(lookups) = 1
    /\ ResolvedWith(1) /\ lookups[1].hits = <<SigCall>>
    /\ preEnrich[1] = [type |-> "function", selector |-> SelectorCall,
                       payable |-> TRUE, stateMutability |-> "payable",
                       inputs |-> <<"bytes">>, outputs |-> <<"bytes">>]
    /\ result[1].outputs = <<"bytes">>
    /\ result[1].inputs = <<"address", "uint256", "bytes">>
    /\ result[1].name = "call"

\* C20: when every capability call that autoload makes settles, autoload
\* itself settles: it returns an ABI or raises.
C20_AutoloadSettles == <>Settled

C20_Witness ==
    /\ pc = "returned"
    /\ Len(lookups) = 2
    /\ ResolvedWith(1) /\ ResolvedWith(2)
    /\ Progress("resolveName") /\ Progress("abiLoader")
    /\ result = abi

====
